---- MODULE Spec2Model ----
(***************************************************************************)
(* Model of the localized reduced-basis reductor of                        *)
(* src/src/pymor/reductors/coercive_ipl3dg.py: the reduce / enrich control *)
(* loop of CoerciveIPLD3GRBReductor, the patch constructors, the local     *)
(* model builder, the coupling filter, the block-operator and rhs          *)
(* projectors and the localized error estimator.                           *)
(*                                                                         *)
(* A local basis is represented by its number of vectors, a ROM by its     *)
(* block dimensions; each call records how many times it ran _reduce().    *)
(* Python's None (and an attribute that is not set yet) is the empty       *)
(* sequence, a present value x is <<x>>.                                   *)
(***************************************************************************)
EXTENDS Integers, Sequences, FiniteSets, TLC

(* ------------------------------ bounds -------------------------------- *)

\* largest total number of basis vectors, over all subdomains
MaxTotal == 4

\* largest number of vectors of one snapshot array passed to add_*_solutions
MaxVecs == 2

\* largest basis length passed to the constructor
MaxInit == 1

\* largest number of subdomains of an arbitrary (unstructured) grid
MaxNodes == 5

\* largest subdomain count handed to construct_inner_node_patches
MaxSubdomains == 16

\* largest number of block rows (and columns) of a projected operator
MaxBlocks == 2

\* largest length of a basis handed to the projector
MaxProjLen == 1

\* affine combinations have at most MaxTerms terms
MaxTerms == 2

\* the module-level functions are called on structured grids of up to
\* MaxSide x MaxSide subdomains
MaxSide == 3

\* the error estimator is evaluated on structured grids of up to
\* MaxEstimatorSide x MaxEstimatorSide subdomains
MaxEstimatorSide == 2

\* patch models are built for element lists over up to MaxPatchNodes
\* subdomains
MaxPatchNodes == 3

\* the coupling filter is run on the patches of structured grids of up to
\* MaxFilterSide x MaxFilterSide subdomains
MaxFilterSide == 6

(* --------------------------- optional values -------------------------- *)

None == <<>>

Some(x) == <<x>>

Val(o) == o[1]

(* ------------------------------ helpers ------------------------------- *)

Range(s) == {s[k] : k \in 1..Len(s)}

RECURSIVE SortedSeq(_)
\* the ascending list of a finite set of integers
SortedSeq(set) ==
    IF set = {} THEN <<>>
    ELSE LET m == CHOOSE x \in set : \A y \in set : x <= y
         IN  <<m>> \o SortedSeq(set \ {m})

RECURSIVE SumTo(_, _)
\* f[0] + ... + f[k-1]
SumTo(f, k) == IF k = 0 THEN 0 ELSE f[k-1] + SumTo(f, k-1)

\* Python's sum() over a list indexed 0..S-1
Sum(f) == SumTo(f, Cardinality(DOMAIN f))

\* int(np.sqrt(s))
IntSqrt(s) == CHOOSE k \in 0..s : k*k <= s /\ (k+1)*(k+1) > s

(* ------------------------- the grid (input) --------------------------- *)

\* side lengths of the structured grids the reductor is run on
GridSides == {1, 2}

\* 4-neighbour adjacency of subdomain I in the row-major n x n grid
StructuredNeighborSet(n, I) ==
    LET r == I \div n
        c == I % n
    IN  {J \in 0..(n*n-1) :
            LET r2 == J \div n
                c2 == J % n
            IN  \/ (r2 = r /\ (c2 = c+1 \/ c2 = c-1))
                \/ (c2 = c /\ (r2 = r+1 \/ r2 = r-1))}

\* a dd_grid: num_subdomains and the lists neighbors(I) returns
StructuredGrid(n) ==
    [num_subdomains |-> n*n,
     neighbors |-> [I \in 0..(n*n-1) |-> SortedSeq(StructuredNeighborSet(n, I))]]

\* the list s backwards
Reverse(s) == [k \in 1..Len(s) |-> s[Len(s) + 1 - k]]

\* the unordered pairs of 0..N-1
Pairs(N) == {p \in (0..(N-1)) \X (0..(N-1)) : p[1] < p[2]}

\* the list s started at its element r (mod its length) and wrapped around
Rotate(s, r) ==
    [k \in 1..Len(s) |-> s[((k - 1 + r) % Len(s)) + 1]]

\* the grid of N subdomains with symmetric adjacency E whose neighbors(I)
\* lists the neighbours in ascending order, or descending if rev, rotated
\* by rot places
GridOf(N, E, rev, rot) ==
    [num_subdomains |-> N,
     neighbors |-> [I \in 0..(N-1) |->
        LET asc == SortedSeq({J \in 0..(N-1) : <<I, J>> \in E \/ <<J, I>> \in E})
        IN  Rotate(IF rev THEN Reverse(asc) ELSE asc, rot)]]

\* the four directions (row step, column step) of the 4-neighbour adjacency
Directions == {<<-1, 0>>, <<1, 0>>, <<0, -1>>, <<0, 1>>}

\* the orders in which neighbors() may list the directions
DirectionOrders ==
    {o \in [1..4 -> Directions] : \A a, b \in 1..4 : a # b => o[a] # o[b]}

\* neighbors(I) on the row-major n x n grid, listing the directions in the
\* given order
OrderedNeighbors(n, order, I) ==
    LET inside(d) == /\ (I \div n) + d[1] \in 0..(n-1)
                     /\ (I % n) + d[2] \in 0..(n-1)
        ds == SelectSeq(order, inside)
    IN  [k \in 1..Len(ds) |-> I + ds[k][1]*n + ds[k][2]]

\* the structured n x n dd_grid whose neighbors() lists the directions in
\* the given order
OrderedStructuredGrid(n, order) ==
    [num_subdomains |-> n*n, side |-> n,
     neighbors |-> [I \in 0..(n*n-1) |-> OrderedNeighbors(n, order, I)]]

\* the duplicate-free lists over 0..N-1
NoDupLists(N) ==
    UNION {{l \in [1..m -> 0..(N-1)] :
               \A a, b \in 1..m : a # b => l[a] # l[b]} : m \in 0..N}

(* -------------------------- patch constructor ------------------------- *)

RECURSIVE ScanSecondNeighbors_one_shared(_, _, _, _)
\* lines 255-257 adding nnn when at least one of its neighbours is in nh
ScanSecondNeighbors_one_shared(grid, nh, lst, k) ==
    IF k > Len(lst) THEN nh
    ELSE LET nnn == lst[k]
             add == /\ nnn \notin nh
                    /\ Cardinality(Range(grid.neighbors[nnn]) \cap nh) >= 1
         IN  ScanSecondNeighbors_one_shared(grid, IF add THEN nh \cup {nnn} ELSE nh,
                                            lst, k+1)

RECURSIVE ScanSecondNeighbors(_, _, _, _)
\* lines 255-257: for nnn in neighbors(nn), from position k on
ScanSecondNeighbors(grid, nh, lst, k) ==
    IF k > Len(lst) THEN nh
    ELSE LET nnn == lst[k]
             add == /\ nnn \notin nh
                    /\ Cardinality(Range(grid.neighbors[nnn]) \cap nh) = 2
         IN  ScanSecondNeighbors(grid, IF add THEN nh \cup {nnn} ELSE nh, lst, k+1)

RECURSIVE ScanNeighbors(_, _, _, _)
\* lines 254-257: for nn in neighbors(ss), from position k on
ScanNeighbors(grid, nh, lst, k) ==
    IF k > Len(lst) THEN nh
    ELSE ScanNeighbors(grid,
                       ScanSecondNeighbors(grid, nh, grid.neighbors[lst[k]], 1),
                       lst, k+1)

\* lines 252-257 with nh started from the neighbours alone
ElementPatchSet_no_self(grid, ss) ==
    ScanNeighbors(grid, Range(grid.neighbors[ss]), grid.neighbors[ss], 1)

\* lines 252-257: the set nh built for subdomain ss
ElementPatchSet(grid, ss) ==
    ScanNeighbors(grid, {ss} \cup Range(grid.neighbors[ss]), grid.neighbors[ss], 1)

\* construct_element_patches: one tuple(nh) per subdomain; a CPython set of
\* small non-negative integers is iterated in ascending order
construct_element_patches(grid) ==
    [ss \in 0..(grid.num_subdomains-1) |-> SortedSeq(ElementPatchSet(grid, ss))]

\* construct_inner_node_patches keyed by i * (shape[1] - 1) + j
construct_inner_node_patches_dense_keys(grid) ==
    LET S == grid.num_subdomains
        n == IntSqrt(S)
        domain_ids(i, j) == i*n + j
        item(i, j) == <<i*(n-1) + j, <<domain_ids(i, j), domain_ids(i, j+1),
                                       domain_ids(i+1, j), domain_ids(i+1, j+1)>> >>
    IN  IF n*n # S
        THEN [raised |-> Some("ValueError"), items |-> <<>>]
        ELSE [raised |-> None,
              items |-> [k \in 1..((n-1)*(n-1)) |->
                            item((k-1) \div (n-1), (k-1) % (n-1))]]

\* construct_inner_node_patches on the first int(sqrt(S))**2 subdomains,
\* whatever S is
construct_inner_node_patches_truncating(grid) ==
    LET n == IntSqrt(grid.num_subdomains)
        item(i, j) == <<i*n + j, <<i*n + j, i*n + j + 1,
                                   (i+1)*n + j, (i+1)*n + j + 1>> >>
    IN  [raised |-> None,
         items |-> [k \in 1..((n-1)*(n-1)) |->
                       item((k-1) \div (n-1), (k-1) % (n-1))]]

\* construct_inner_node_patches: the dict as its (key, elements) items in
\* insertion order; reshape raises ValueError unless int(sqrt(S))**2 == S
construct_inner_node_patches(grid) ==
    LET S == grid.num_subdomains
        n == IntSqrt(S)
        \* domain_ids[i, j] of np.arange(S).reshape((n, n))
        domain_ids(i, j) == i*n + j
        item(i, j) == <<i*n + j, <<domain_ids(i, j), domain_ids(i, j+1),
                                   domain_ids(i+1, j), domain_ids(i+1, j+1)>> >>
    IN  IF n*n # S
        THEN [raised |-> Some("ValueError"), items |-> <<>>]
        ELSE [raised |-> None,
              items |-> [k \in 1..((n-1)*(n-1)) |->
                            item((k-1) \div (n-1), (k-1) % (n-1))]]

\* lines 279-281 with the neighbours of the first element only
ExtendNeighbors_first_only(grid, elements, k) ==
    IF k > Len(elements) THEN <<>> ELSE grid.neighbors[elements[k]]

RECURSIVE ExtendNeighbors(_, _, _)
\* lines 279-281: the concatenation of neighbors(el) for el in elements[k..]
ExtendNeighbors(grid, elements, k) ==
    IF k > Len(elements) THEN <<>>
    ELSE grid.neighbors[elements[k]] \o ExtendNeighbors(grid, elements, k+1)

\* add_element_neighbors: same keys, in the same order; each value is
\* list(np.sort(np.unique(...)))
add_element_neighbors(grid, domains) ==
    [k \in 1..Len(domains) |->
        <<domains[k][1], SortedSeq(Range(ExtendNeighbors(grid, domains[k][2], 1)))>>]

(* ------------------------- local model builder ------------------------ *)

\* local_to_global_mapping(i) of construct_local_model(local_elements, ...):
\* Python list indexing, 0-based, a negative index counts from the end
local_to_global_mapping(local_elements, i) ==
    IF i >= 0 THEN local_elements[i + 1]
    ELSE local_elements[Len(local_elements) + i + 1]

\* global_to_local_mapping counting positions from 1
global_to_local_mapping_one_based(local_elements, i) ==
    IF \E k \in 1..Len(local_elements) : local_elements[k] = i
    THEN CHOOSE k \in 1..Len(local_elements) :
             /\ local_elements[k] = i
             /\ \A m \in 1..(k-1) : local_elements[m] # i
    ELSE -1

\* global_to_local_mapping(i): the first position holding i, else -1
global_to_local_mapping(local_elements, i) ==
    IF \E k \in 1..Len(local_elements) : local_elements[k] = i
    THEN (CHOOSE k \in 1..Len(local_elements) :
             /\ local_elements[k] = i
             /\ \A m \in 1..(k-1) : local_elements[m] # i) - 1
    ELSE -1

\* construct_local_model, lines 210-218 and 244: the two mapping closures it
\* returns, tabulated over the local indices and over the S subdomains
construct_local_model(local_elements, num_subdomains) ==
    [local_to_global |->
        [i \in 0..(Len(local_elements)-1) |->
            local_to_global_mapping(local_elements, i)],
     global_to_local |->
        [I \in 0..(num_subdomains-1) |->
            global_to_local_mapping(local_elements, I)]]

(* ------------------------- localized estimator ------------------------ *)

\* In the estimator a norm x >= 0 is represented by its square x**2.

\* the squared norms a block of the residual may have
ResidualNorms == {0, 1}

\* Python's seq[i] for a list kept as a sequence: 0-based, a negative index
\* counts from the end
PyItem(seq, i) == IF i >= 0 THEN seq[i + 1] ELSE seq[Len(seq) + i + 1]

RECURSIVE SumSeq(_, _)
\* s[1] + ... + s[k]
SumSeq(s, k) == IF k = 0 THEN 0 ELSE s[k] + SumSeq(s, k-1)

\* the number of times x occurs in the list
Occurrences(seq, x) == Cardinality({k \in 1..Len(seq) : seq[k] = x})

\* dict lookup in a list of (key, value) items
DictGet(items, key) ==
    items[CHOOSE k \in 1..Len(items) : items[k][1] = key][2]

\* lines 48-60 and 169-180: the EllipticIPLRBEstimator of a reductor built
\* on grid; mappings[k] is global_to_local of the local model of estimator
\* domain k
assemble_error_estimator(grid) ==
    LET nodes == construct_inner_node_patches(grid).items
        eds == add_element_neighbors(grid, nodes)
    IN  [estimator_domains |-> eds,
         domains |-> grid.num_subdomains,
         mappings |-> [k \in 1..Len(eds) |->
                          construct_local_model(eds[k][2],
                                                grid.num_subdomains).global_to_local],
         inner_node_patches |-> nodes]

\* EllipticIPLRBEstimator.estimate_error, lines 405-435; res[I] is the
\* squared norm of the residual's block on subdomain I.  The result holds the
\* returned triple and, as loop_domains and distributed_domains, the
\* estimator domain of the k-th indicator in the loop of line 408 and in the
\* loop of line 430
estimate_error(est, res) ==
    LET K == Len(est.estimator_domains)
        \* lines 421-425 for the k-th tuple of the zip
        norm(k) ==
            LET elements == est.estimator_domains[k][2]
                inner_elements == est.inner_node_patches[k][2]
                blocks == [l \in 1..Len(elements) |-> res[elements[l]]]
                locally_inner_elements ==
                    [e \in 1..Len(inner_elements) |-> est.mappings[k][inner_elements[e]]]
                res_on_node_patch ==
                    [e \in 1..Len(inner_elements) |->
                        PyItem(blocks, locally_inner_elements[e])]
            IN  SumSeq(res_on_node_patch, Len(res_on_node_patch))
        indicators == [k \in 1..K |-> norm(k)]
        \* line 430: sorted(self.estimator_domains.keys())
        keys == SortedSeq({est.estimator_domains[k][1] : k \in 1..K})
        \* lines 429-433
        ests == [sd \in 0..(est.domains-1) |->
                    SumSeq([k \in 1..K |->
                               Occurrences(DictGet(est.estimator_domains, keys[k]), sd)
                               * indicators[k]], K)]
    IN  [overall |-> SumSeq(indicators, K),
         indicators |-> indicators,
         \* line 434: the builtin sum() adds the entries up, so np.sqrt gets,
         \* and returns, a 0-dimensional value
         ests |-> [shape |-> <<>>, value |-> Sum(ests)],
         loop_domains |-> [k \in 1..K |-> est.estimator_domains[k][1]],
         distributed_domains |-> keys]

(* ----------------------------- constructor ---------------------------- *)

\* CoerciveIPLD3GRBReductor.__init__, lines 17-60, on any dd_grid: the
\* exception it raises, or the patches and estimator domains it sets
reductor_init(grid) ==
    LET patches == construct_element_patches(grid)
        nodes == construct_inner_node_patches(grid)
    IN  IF nodes.raised # None
        THEN [raised |-> nodes.raised, obj |-> None]
        ELSE [raised |-> None,
              obj |-> Some([element_patches |-> patches,
                            inner_node_patches |-> nodes.items,
                            estimator_domains |->
                                add_element_neighbors(grid, nodes.items)])]

(* ----------------------- block-operator projector --------------------- *)

\* len() of a Python list kept as a function on 0..n-1
PyLen(f) == Cardinality(DOMAIN f)

\* pymor.algorithms.projection.project(op, range_basis, source_basis): the
\* reduced operator, with len(range_basis) rows and len(source_basis) columns
project(op, range_basis, source_basis) ==
    [kind |-> "projected", op |-> op, range |-> range_basis,
     source |-> source_basis]

\* IdentityOperator(space)
IdentityOperator(space) == [kind |-> "identity", space |-> space]

\* np.empty(shape, dtype=object): every entry None
EmptyBlocks(rows, cols) == [ij \in (0..(rows-1)) \X (0..(cols-1)) |-> None]

\* BlockOperator(blocks)
BlockOperator(blocks, rows, cols) ==
    [kind |-> "block", rows |-> rows, cols |-> cols, blocks |-> blocks]

\* _project_block_operator with the bases of line 348-349 exchanged
project_block_operator_impl_swapped(operator, range_bases, source_bases) ==
    IF operator.kind = "block"
    THEN [raised |-> None,
          value |-> BlockOperator(
             [ij \in DOMAIN operator.blocks |->
                 IF operator.blocks[ij] # None
                 THEN Some(project(Val(operator.blocks[ij]),
                                   range_bases[ij[2]], source_bases[ij[1]]))
                 ELSE None],
             operator.rows, operator.cols)]
    ELSE [raised |-> Some("NotImplementedError"), value |-> None]

\* _project_block_operator with an unrecognised kind passed through
\* unprojected
project_block_operator_impl_lenient(operator, range_bases, source_bases) ==
    [raised |-> None, value |-> operator]

\* _project_block_operator, lines 334-353
project_block_operator_impl(operator, range_bases, source_bases) ==
    IF operator.kind = "identity"
    THEN \* lines 336-340: local_projected_op[I][I] for I in range(len(range_bases))
         IF PyLen(range_bases) > PyLen(source_bases)
         THEN [raised |-> Some("IndexError"), value |-> None]
         ELSE [raised |-> None,
               value |-> BlockOperator(
                  [ij \in DOMAIN EmptyBlocks(PyLen(range_bases), PyLen(source_bases)) |->
                      IF ij[1] = ij[2]
                      THEN Some(project(IdentityOperator(range_bases[ij[1]].space),
                                        range_bases[ij[1]], range_bases[ij[1]]))
                      ELSE None],
                  PyLen(range_bases), PyLen(source_bases))]
    ELSE IF operator.kind = "block"
    THEN \* lines 342-349: operator.blocks[I][J] is read for every I, J
         IF PyLen(range_bases) > operator.rows \/ PyLen(source_bases) > operator.cols
         THEN [raised |-> Some("IndexError"), value |-> None]
         ELSE [raised |-> None,
               value |-> BlockOperator(
                  [ij \in DOMAIN operator.blocks |->
                      IF /\ ij[1] < PyLen(range_bases)
                         /\ ij[2] < PyLen(source_bases)
                         /\ operator.blocks[ij] # None
                      THEN Some(project(Val(operator.blocks[ij]),
                                        range_bases[ij[1]], source_bases[ij[2]]))
                      ELSE None],
                  operator.rows, operator.cols)]
    ELSE [raised |-> Some("NotImplementedError"), value |-> None]

RECURSIVE project_terms_reversed(_, _, _, _)
\* lines 327-328 with the projected terms collected in reverse order
project_terms_reversed(operators, range_bases, source_bases, k) ==
    IF k > Len(operators) THEN [raised |-> None, value |-> <<>>]
    ELSE LET t == project_block_operator_impl(operators[k], range_bases, source_bases)
         IN  IF t.raised # None THEN t
             ELSE LET rest == project_terms_reversed(operators, range_bases,
                                                     source_bases, k+1)
                  IN  IF rest.raised # None THEN rest
                      ELSE [raised |-> None, value |-> rest.value \o <<t.value>>]

RECURSIVE project_terms(_, _, _, _)
\* lines 327-328, from term k on: the projected terms, or the first error
project_terms(operators, range_bases, source_bases, k) ==
    IF k > Len(operators) THEN [raised |-> None, value |-> <<>>]
    ELSE LET t == project_block_operator_impl(operators[k], range_bases, source_bases)
         IN  IF t.raised # None THEN t
             ELSE LET rest == project_terms(operators, range_bases, source_bases, k+1)
                  IN  IF rest.raised # None THEN rest
                      ELSE [raised |-> None, value |-> <<t.value>> \o rest.value]

\* project_block_operator, lines 322-331
project_block_operator(operator, range_bases, source_bases) ==
    IF operator.kind = "lincomb"
    THEN LET ts == project_terms(operator.operators, range_bases, source_bases, 1)
         IN  IF ts.raised # None THEN ts
             ELSE [raised |-> None,
                   value |-> [kind |-> "lincomb", operators |-> ts.value,
                              coefficients |-> operator.coefficients]]
    ELSE project_block_operator_impl(operator, range_bases, source_bases)

\* LincombOperator(operators, coefficients)
LincombOperator(operators, coefficients) ==
    [kind |-> "lincomb", operators |-> operators, coefficients |-> coefficients]

\* VectorArrayOperator(array)
VectorArrayOperator(array) == [kind |-> "vector_array", array |-> array]

\* BlockColumnOperator(blocks): blocks[I, 0] for I in 0..rows-1
BlockColumnOperator(blocks) ==
    [kind |-> "block_column", rows |-> PyLen(blocks), blocks |-> blocks]

\* _project_block_rhs, lines 368-382
project_block_rhs_impl(rhs, range_bases) ==
    IF rhs.kind = "vector"
    THEN \* lines 370-374: rhs_blocks[I] is read for I in range(len(range_bases))
         IF PyLen(range_bases) > PyLen(rhs.blocks)
         THEN [raised |-> Some("IndexError"), value |-> None]
         ELSE [raised |-> None,
               value |-> BlockColumnOperator(
                  [I \in DOMAIN rhs.blocks |->
                      IF I < PyLen(range_bases)
                      THEN Some(project(VectorArrayOperator(rhs.blocks[I]),
                                        range_bases[I], None))
                      ELSE None])]
    ELSE IF rhs.kind = "block_column"
    THEN \* lines 376-378
         IF PyLen(range_bases) > rhs.rows
         THEN [raised |-> Some("IndexError"), value |-> None]
         ELSE [raised |-> None,
               value |-> BlockColumnOperator(
                  [I \in DOMAIN rhs.blocks |->
                      IF I < PyLen(range_bases)
                      THEN Some(project(Val(rhs.blocks[I]), range_bases[I], None))
                      ELSE None])]
    ELSE [raised |-> Some("NotImplementedError"), value |-> None]

RECURSIVE project_rhs_terms(_, _, _)
\* lines 361-362, from term k on: the projected terms, or the first error
project_rhs_terms(operators, range_bases, k) ==
    IF k > Len(operators) THEN [raised |-> None, value |-> <<>>]
    ELSE LET t == project_block_rhs_impl(operators[k], range_bases)
         IN  IF t.raised # None THEN t
             ELSE LET rest == project_rhs_terms(operators, range_bases, k+1)
                  IN  IF rest.raised # None THEN rest
                      ELSE [raised |-> None, value |-> <<t.value>> \o rest.value]

\* project_block_rhs, lines 356-365
project_block_rhs(rhs, range_bases) ==
    IF rhs.kind = "lincomb"
    THEN LET ts == project_rhs_terms(rhs.operators, range_bases, 1)
         IN  IF ts.raised # None THEN ts
             ELSE [raised |-> None,
                   value |-> LincombOperator(ts.value, rhs.coefficients)]
    ELSE project_block_rhs_impl(rhs, range_bases)

(* ------------------------- names of the terms ------------------------- *)

\* A Python string is kept as the sequence of its characters.

DigitChars == <<"0", "1", "2", "3", "4", "5", "6", "7", "8", "9">>

RECURSIVE Str(_)
\* f'{n}' of an integer n >= 0
Str(n) ==
    IF n < 10 THEN <<DigitChars[n + 1]>>
    ELSE Str(n \div 10) \o <<DigitChars[(n % 10) + 1]>>

\* f'{I}_{J}', lines 307 and 309
PairString(I, J) == Str(I) \o <<"_">> \o Str(J)

\* Python's `sub in s` for strings
Contains(sub, s) ==
    \E k \in 0..(Len(s) - Len(sub)) : SubSeq(s, k + 1, k + Len(sub)) = sub

VolumeName == <<"v", "o", "l", "u", "m", "e">>

BoundaryName == <<"b", "o", "u", "n", "d", "a", "r", "y">>

(* ------------------------- the FOM (input) ---------------------------- *)

\* a term of a diagonal block of the FOM operator; couples: the neighbour it
\* couples the subdomain to, None for a volume or boundary term
Term(name, couples) == [kind |-> "matrix", name |-> name, couples |-> couples]

\* the canonical name 'min(I,K)_max(I,K)' of the coupling term of pair {I,K}
CouplingName(I, K) == IF I < K THEN PairString(I, K) ELSE PairString(K, I)

\* diagonal block (I,I) of the FOM operator: the affine combination of a
\* volume term, one coupling term per neighbour of I and a boundary term
FomDiagonalBlock(grid, I) ==
    LET nbs == grid.neighbors[I]
        ops == <<Term(VolumeName, None)>>
               \o [k \in 1..Len(nbs) |-> Term(CouplingName(I, nbs[k]), Some(nbs[k]))]
               \o <<Term(BoundaryName, None)>>
    IN  LincombOperator(ops, [k \in 1..Len(ops) |-> <<"theta", I, k>>])

\* fom.operator: a diagonal block per subdomain and block (I,J) for every
\* neighbour J of I
FomOperator(grid) ==
    BlockOperator(
        [ij \in (0..(grid.num_subdomains-1)) \X (0..(grid.num_subdomains-1)) |->
            IF ij[1] = ij[2] THEN Some(FomDiagonalBlock(grid, ij[1]))
            ELSE IF ij[2] \in Range(grid.neighbors[ij[1]])
            THEN Some([kind |-> "coupling", pair |-> ij])
            ELSE None],
        grid.num_subdomains, grid.num_subdomains)

\* fom.rhs
FomRhs(grid) ==
    BlockColumnOperator([I \in 0..(grid.num_subdomains-1) |->
                            Some([kind |-> "rhs", row |-> I])])

(* ----------------------------- patch model ---------------------------- *)

\* StationaryModel(operator, rhs)
StationaryModel(operator, rhs) == [operator |-> operator, rhs |-> rhs]

\* the patch model with line 231 dropped: patch_op[ii][jj] is assigned for
\* jj = -1 too, which is the last column
construct_patch_model_no_guard(local_elements, block_op, block_rhs, neighbors) ==
    LET S_patch == Len(local_elements)
        block(ii, jj) ==
            LET I == local_to_global_mapping(local_elements, ii)
                Js == {J \in Range(neighbors[I]) :
                          LET g == global_to_local_mapping(local_elements, J)
                          IN  g = jj \/ (g = -1 /\ jj = S_patch - 1)}
            IN  IF Js # {} THEN block_op.blocks[<<I, CHOOSE J \in Js : TRUE>>]
                ELSE IF ii = jj THEN block_op.blocks[<<I, I>>]
                ELSE None
    IN  StationaryModel(
            BlockOperator([ij \in (0..(S_patch-1)) \X (0..(S_patch-1)) |->
                              block(ij[1], ij[2])], S_patch, S_patch),
            BlockColumnOperator(
                [ii \in 0..(S_patch-1) |->
                    block_rhs.blocks[local_to_global_mapping(local_elements, ii)]]))

\* construct_local_model, lines 220-243: the patch model it returns
construct_patch_model(local_elements, block_op, block_rhs, neighbors) ==
    LET S_patch == Len(local_elements)
        \* patch_op[ii][jj] after the loop of lines 225-238
        block(ii, jj) ==
            LET I == local_to_global_mapping(local_elements, ii)
                Js == {J \in Range(neighbors[I]) :
                          global_to_local_mapping(local_elements, J) = jj}
            IN  IF Js # {} THEN block_op.blocks[<<I, CHOOSE J \in Js : TRUE>>]
                ELSE IF ii = jj THEN block_op.blocks[<<I, I>>]
                ELSE None
    IN  StationaryModel(
            BlockOperator([ij \in (0..(S_patch-1)) \X (0..(S_patch-1)) |->
                              block(ij[1], ij[2])], S_patch, S_patch),
            BlockColumnOperator(
                [ii \in 0..(S_patch-1) |->
                    block_rhs.blocks[local_to_global_mapping(local_elements, ii)]]))

\* the patch model of the element list on the grid, as __init__ builds it in
\* lines 34-35 and 50-51
PatchModelOf(grid, local_elements) ==
    construct_patch_model(local_elements, FomOperator(grid), FomRhs(grid),
                          grid.neighbors)

(* --------------------------- coupling filter -------------------------- *)

RECURSIVE KeptTerms(_, _, _)
\* lines 310-315 from term k on: the positions of the terms of the affine
\* combination b whose name contains 'volume', 'boundary' or one of strings
KeptTerms(b, strings, k) ==
    IF k > Len(b.operators) \/ k > Len(b.coefficients) THEN <<>>
    ELSE LET name == b.operators[k].name
             keep == \/ Contains(VolumeName, name)
                     \/ Contains(BoundaryName, name)
                     \/ Cardinality({l \in 1..Len(strings) :
                                        Contains(strings[l], name)}) # 0
         IN  (IF keep THEN <<k>> ELSE <<>>) \o KeptTerms(b, strings, k + 1)

\* remove_irrelevant_coupling_from_patch_operator, lines 286-319;
\* mapping_to_global is given as its table over the local indices
remove_irrelevant_coupling_from_patch_operator(patch_model, mapping_to_global) ==
    LET local_op == patch_model.operator
        subspaces == local_op.rows
        blocks == local_op.blocks
        \* line 303
        element_patch == [l \in 1..subspaces |-> mapping_to_global[l - 1]]
        \* lines 304-309
        strings(I) ==
            [l \in 1..subspaces |->
                IF I < element_patch[l] THEN PairString(I, element_patch[l])
                ELSE PairString(element_patch[l], I)]
        \* lines 310-317
        filtered(i) ==
            LET b == Val(blocks[<<i, i>>])
                kept == KeptTerms(b, strings(mapping_to_global[i]), 1)
            IN  LincombOperator([m \in 1..Len(kept) |-> b.operators[kept[m]]],
                                [m \in 1..Len(kept) |-> b.coefficients[kept[m]]])
    IN  BlockOperator(
            [ij \in (0..(subspaces-1)) \X (0..(subspaces-1)) |->
                IF ij[1] # ij[2] THEN blocks[ij]
                ELSE IF blocks[ij] # None THEN Some(filtered(ij[1]))
                ELSE None],
            subspaces, subspaces)

(* ------------------------------ reductor ------------------------------ *)

VARIABLES
    dd_grid,              \* the grid handed to the constructor (read-only)
    local_bases,          \* self.local_bases: length of each local basis
    last_rom,             \* self._last_rom: None or the cached ROM
    last_rom_dims,        \* self._last_rom_dims: unset or the recorded total
    reduced_local_bases,  \* self.reduced_local_bases: unset or the snapshot
    element_patches,      \* self.element_patches
    patch_models,         \* self.patch_models and the two patch_mappings
    inner_node_patches,   \* self.inner_node_patches
    estimator_domains,    \* self.estimator_domains
    last,                 \* the last call: its arguments, result and trace
    call,                 \* a call of a module-level function: its name, its
                          \* arguments and, once it returned, its result
    enriched              \* subdomains whose basis an enrich_locally call
                          \* extended since reduce() last returned a ROM

vars == <<dd_grid, local_bases, last_rom, last_rom_dims, reduced_local_bases,
          element_patches, patch_models, inner_node_patches, estimator_domains,
          last, call, enriched>>

\* self.S
S == dd_grid.num_subdomains

Subdomains == 0..(S-1)

\* the parameter values the calls are made with
Params == {"mu"}

\* the mutable fields of the reductor, as one record
Self ==
    [local_bases |-> local_bases, last_rom |-> last_rom,
     last_rom_dims |-> last_rom_dims,
     reduced_local_bases |-> reduced_local_bases]

\* a call's outcome: the reductor after it, the exception it raised (None:
\* it returned), the ROM it returned, the number of _reduce() calls it made,
\* the ROMs it solved and the extend_basis calls it made, in order
Outcome(obj, raised, ret, builds, solved, ext) ==
    [obj |-> obj, raised |-> raised, ret |-> ret, builds |-> builds,
     solved |-> solved, ext |-> ext]

\* basis_length, lines 127-128
basis_length(obj) == [I \in DOMAIN obj.local_bases |-> obj.local_bases[I]]

\* project_operators, lines 142-167: operator, rhs and products are projected
\* onto self.local_bases, so block I of the ROM has len(local_bases[I]) rows
project_operators(obj) == [I \in DOMAIN obj.local_bases |-> obj.local_bases[I]]

\* _reduce (inherited): a new ROM object built from project_operators()
reduce_impl(obj) == [dims |-> project_operators(obj)]

\* line 133 with >= for >
rebuild_needed_ge(obj) ==
    obj.last_rom = None \/ Sum(basis_length(obj)) >= Val(obj.last_rom_dims)

\* line 133 comparing the number of bases, not the sum of their lengths
rebuild_needed_len(obj) ==
    \/ obj.last_rom = None
    \/ Cardinality(DOMAIN basis_length(obj)) > Val(obj.last_rom_dims)

\* the condition of line 133
rebuild_needed(obj) ==
    obj.last_rom = None \/ Sum(basis_length(obj)) > Val(obj.last_rom_dims)

\* lines 134-138 with the snapshot of line 138 taken at the first build only
rebuild_first_snapshot(obj) ==
    [obj EXCEPT !.last_rom = Some(reduce_impl(obj)),
                !.last_rom_dims = Some(Sum(basis_length(obj))),
                !.reduced_local_bases =
                    IF obj.reduced_local_bases = None
                    THEN Some(obj.local_bases) ELSE @]

\* lines 134-138
rebuild(obj) ==
    [obj EXCEPT !.last_rom = Some(reduce_impl(obj)),
                !.last_rom_dims = Some(Sum(basis_length(obj))),
                !.reduced_local_bases = Some(obj.local_bases)]

\* reduce with the assertion of line 131 after the rebuild
reduce_assert_late(obj, dims) ==
    LET hit == rebuild_needed(obj)
        o2 == IF hit THEN rebuild(obj) ELSE obj
        n == IF hit THEN 1 ELSE 0
    IN  IF dims # None
        THEN Outcome(o2, Some("AssertionError"), None, n, <<>>, <<>>)
        ELSE Outcome(o2, None, o2.last_rom, n, <<>>, <<>>)

\* reduce, lines 130-140
reduce(obj, dims) ==
    IF dims # None
    THEN Outcome(obj, Some("AssertionError"), None, 0, <<>>, <<>>)
    ELSE LET hit == rebuild_needed(obj)
             o2 == IF hit THEN rebuild(obj) ELSE obj
         IN  Outcome(o2, None, o2.last_rom, IF hit THEN 1 ELSE 0, <<>>, <<>>)

\* reduce_to_subbasis, lines 182-183
reduce_to_subbasis(obj, dims) ==
    Outcome(obj, Some("NotImplementedError"), None, 0, <<>>, <<>>)

\* extend_basis(U, basis) of pymor.reductors.basic: of the len(U) = k vectors
\* g survive the orthogonalisation and are appended; it raises ExtensionError
\* when none does
extend_basis(len, k, g) ==
    [len |-> len + g, raised |-> IF g = 0 THEN Some("ExtensionError") ELSE None]

\* add_local_solutions without the try / except of lines 72-75
add_local_solutions_no_catch(obj, I, k, g) ==
    LET e == extend_basis(obj.local_bases[I], k, g)
    IN  Outcome([obj EXCEPT !.local_bases[I] = e.len], e.raised, None, 0, <<>>,
                <<[I |-> I, failed |-> e.raised # None]>>)

\* add_local_solutions with the basis replaced by the new vectors
add_local_solutions_replace(obj, I, k, g) ==
    LET e == extend_basis(0, k, g)
    IN  Outcome([obj EXCEPT !.local_bases[I] = e.len], None, None, 0, <<>>,
                <<[I |-> I, failed |-> e.raised # None]>>)

\* add_local_solutions, lines 71-75: u has k vectors, g of them extend the basis
add_local_solutions(obj, I, k, g) ==
    LET e == extend_basis(obj.local_bases[I], k, g)
    IN  Outcome([obj EXCEPT !.local_bases[I] = e.len], None, None, 0, <<>>,
                <<[I |-> I, failed |-> e.raised # None]>>)

RECURSIVE add_global_loop(_, _, _, _)
\* lines 64-69, from subdomain I on: gs[I] of the k vectors of us.block(I)
\* extend basis I
add_global_loop(obj, I, k, gs) ==
    IF I \notin DOMAIN obj.local_bases
    THEN Outcome(obj, None, None, 0, <<>>, <<>>)
    ELSE LET e == extend_basis(obj.local_bases[I], k, gs[I])
             rest == add_global_loop([obj EXCEPT !.local_bases[I] = e.len],
                                     I + 1, k, gs)
         IN  [rest EXCEPT !.ext = <<[I |-> I, failed |-> e.raised # None]>> \o rest.ext]

\* add_global_solutions, lines 62-69
add_global_solutions(obj, k, gs) == add_global_loop(obj, 0, k, gs)

\* reconstruct / lines 106-111: basis.lincomb(u_rom.block(I)) needs as many
\* coefficients as the snapshot basis I has vectors, for every I in elems
lincomb_fits(obj, elems) ==
    \A I \in elems :
        Val(obj.reduced_local_bases)[I] = Val(obj.last_rom).dims[I]

\* enrich_locally calling reduce() whether or not a ROM is cached (line 82)
enrich_locally_always_reduce(obj, patches, I, mu, use_global_matrix, g) ==
    LET r0 == reduce(obj, None)
        o1 == r0.obj
        rom == Val(o1.last_rom)
    IN  LET r == add_local_solutions(o1, I, 1, g)
        IN  Outcome(r.obj, r.raised, None, r0.builds, <<rom>>, r.ext)

\* enrich_locally extending the basis of every subdomain of the patch
enrich_locally_whole_patch(obj, patches, I, mu, use_global_matrix, g) ==
    LET r0 == IF obj.last_rom = None THEN reduce(obj, None)
              ELSE Outcome(obj, None, None, 0, <<>>, <<>>)
        o1 == r0.obj
        rom == Val(o1.last_rom)
        grown == [J \in DOMAIN o1.local_bases |->
                     IF J \in Range(patches[I]) THEN o1.local_bases[J] + g
                     ELSE o1.local_bases[J]]
    IN  Outcome([o1 EXCEPT !.local_bases = grown], None, None, r0.builds, <<rom>>,
                <<[I |-> I, failed |-> g = 0]>>)

\* enrich_locally, lines 81-125; g: whether the new vector extends basis I
enrich_locally(obj, patches, I, mu, use_global_matrix, g) ==
    LET r0 == IF obj.last_rom = None THEN reduce(obj, None)
              ELSE Outcome(obj, None, None, 0, <<>>, <<>>)
        o1 == r0.obj
        rom == Val(o1.last_rom)
        patch == patches[I]
        \* reconstruct (line 95) reads every snapshot basis, lines 107-111
        \* those of the patch
        read == IF use_global_matrix THEN DOMAIN o1.local_bases ELSE Range(patch)
        \* phi.block(mapping_to_local(I)) holds one vector
        k == 1
    IN  IF ~lincomb_fits(o1, read)
        THEN Outcome(o1, Some("AssertionError"), None, r0.builds, <<rom>>, <<>>)
        ELSE LET r == add_local_solutions(o1, I, k, g)
             IN  Outcome(r.obj, r.raised, None, r0.builds, <<rom>>, r.ext)

RECURSIVE enrich_all_loop(_, _, _, _, _, _)
\* lines 78-79, from subdomain I on
enrich_all_loop(obj, patches, I, mu, use_global_matrix, gs) ==
    IF I \notin DOMAIN obj.local_bases
    THEN Outcome(obj, None, None, 0, <<>>, <<>>)
    ELSE LET r == enrich_locally(obj, patches, I, mu, use_global_matrix, gs[I])
         IN  IF r.raised # None THEN r
             ELSE LET rest == enrich_all_loop(r.obj, patches, I + 1, mu,
                                              use_global_matrix, gs)
                  IN  [rest EXCEPT !.builds = r.builds + rest.builds,
                                   !.solved = r.solved \o rest.solved,
                                   !.ext = r.ext \o rest.ext]

\* enrich_all_locally, lines 77-79
enrich_all_locally(obj, patches, mu, use_global_matrix, gs) ==
    enrich_all_loop(obj, patches, 0, mu, use_global_matrix, gs)

(* ------------------------------- actions ------------------------------ *)

\* no module-level function is being called
NoCall == [fn |-> "none", args |-> None, out |-> None]

\* the record kept of a call; had: the subdomains enriched before it
Call(op, I, arg, had, r) ==
    [op |-> op, I |-> I, arg |-> arg, had |-> had, raised |-> r.raised,
     ret |-> r.ret, builds |-> r.builds, solved |-> r.solved, ext |-> r.ext]

\* fom.operator with every block kept as a reference to it, not its terms
FomOperatorBlocks(grid) ==
    BlockOperator(
        [ij \in (0..(grid.num_subdomains-1)) \X (0..(grid.num_subdomains-1)) |->
            IF ij[1] = ij[2] \/ ij[2] \in Range(grid.neighbors[ij[1]])
            THEN Some(ij) ELSE None],
        grid.num_subdomains, grid.num_subdomains)

\* lines 30-38: for every element patch the patch model and the two mappings
\* construct_local_model returns
PatchModels(grid, patches) ==
    [I \in DOMAIN patches |->
        [patch_model |-> construct_patch_model(patches[I], FomOperatorBlocks(grid),
                                               FomRhs(grid), grid.neighbors),
         mappings |-> construct_local_model(patches[I], grid.num_subdomains)]]

\* the reductor's fields after a call
Becomes(obj) ==
    /\ Sum(obj.local_bases) <= MaxTotal
    /\ local_bases' = obj.local_bases
    /\ last_rom' = obj.last_rom
    /\ last_rom_dims' = obj.last_rom_dims
    /\ reduced_local_bases' = obj.reduced_local_bases
    /\ UNCHANGED <<dd_grid, element_patches, patch_models, inner_node_patches,
                   estimator_domains, call>>

\* the subdomains an enrich_locally call of r extended
Extended(r) == {r.ext[k].I : k \in {m \in 1..Len(r.ext) : ~r.ext[m].failed}}

\* __init__, lines 17-60, on a structured n x n grid, with local_bases None
\* or S bases of a common length
Init ==
    \E n \in GridSides, arg \in {None} \cup {Some(k) : k \in 0..MaxInit} :
        LET grid == StructuredGrid(n)
            nodes == construct_inner_node_patches(grid)
        IN  /\ dd_grid = grid
            /\ local_bases = [I \in 0..(n*n-1) |->
                                 IF arg = None THEN 0 ELSE Val(arg)]
            /\ last_rom = None
            /\ last_rom_dims = None
            /\ reduced_local_bases = None
            /\ element_patches = construct_element_patches(grid)
            /\ patch_models = PatchModels(grid, construct_element_patches(grid))
            /\ inner_node_patches = nodes.items
            /\ estimator_domains = add_element_neighbors(grid, nodes.items)
            /\ last = [op |-> "init", I |-> -1, arg |-> arg, had |-> {},
                       raised |-> None, ret |-> None, builds |-> 0, solved |-> <<>>, ext |-> <<>>]
            /\ enriched = {}
            /\ call = NoCall

Reduce ==
    \E dims \in {None, Some(1)} :
        LET r == reduce(Self, dims)
        IN  /\ Becomes(r.obj)
            /\ last' = Call("reduce", -1, dims, enriched, r)
            /\ enriched' = IF r.raised = None THEN {} ELSE enriched

ReduceToSubbasis ==
    \E dims \in {Some(1)} :
        LET r == reduce_to_subbasis(Self, dims)
        IN  /\ Becomes(r.obj)
            /\ last' = Call("reduce_to_subbasis", -1, None, {}, r)
            /\ UNCHANGED enriched

AddLocalSolutions ==
    \E I \in Subdomains, k \in 1..MaxVecs :
        \E g \in 0..k :
            LET r == add_local_solutions(Self, I, k, g)
            IN  /\ Becomes(r.obj)
                /\ last' = Call("add_local_solutions", I, None, {}, r)
                /\ UNCHANGED enriched

AddGlobalSolutions ==
    \E k \in 1..MaxVecs :
        \E gs \in [Subdomains -> 0..k] :
            /\ Sum(local_bases) + Sum(gs) <= MaxTotal
            /\ LET r == add_global_solutions(Self, k, gs)
               IN  /\ Becomes(r.obj)
                   /\ last' = Call("add_global_solutions", -1, None, {}, r)
                   /\ UNCHANGED enriched

EnrichLocally ==
    \E I \in Subdomains, mu \in Params, use_global_matrix \in BOOLEAN,
       g \in 0..1 :
        LET r == enrich_locally(Self, element_patches, I, mu,
                                use_global_matrix, g)
        IN  /\ Becomes(r.obj)
            /\ last' = Call("enrich_locally", I, None, {}, r)
            /\ enriched' = enriched \cup Extended(r)

EnrichAllLocally ==
    \E mu \in Params, use_global_matrix \in BOOLEAN :
        \E gs \in [Subdomains -> 0..1] :
            /\ Sum(local_bases) + Sum(gs) <= MaxTotal
            /\ LET r == enrich_all_locally(Self, element_patches, mu,
                                           use_global_matrix, gs)
               IN  /\ Becomes(r.obj)
                   /\ last' = Call("enrich_all_locally", -1, None, {}, r)
                   /\ enriched' = enriched \cup Extended(r)

Next ==
    \/ Reduce
    \/ ReduceToSubbasis
    \/ AddLocalSolutions
    \/ AddGlobalSolutions
    \/ EnrichLocally
    \/ EnrichAllLocally

Spec == Init /\ [][Next]_vars

(* ------------------- the module-level functions ----------------------- *)

\* the fields of the reductor
reductor_vars ==
    <<dd_grid, local_bases, last_rom, last_rom_dims, reduced_local_bases,
      element_patches, patch_models, inner_node_patches, estimator_domains, last,
      enriched>>

\* a pending call of fn
Pending(fn, args) == [fn |-> fn, args |-> args, out |-> None]

\* an nb x nb pattern of present blocks in which every row and every column
\* holds a block, as BlockOperator needs to know its spaces
ValidPattern(q, nb) ==
    /\ \A I \in 0..(nb-1) : \E J \in 0..(nb-1) : q[<<I, J>>]
    /\ \A J \in 0..(nb-1) : \E I \in 0..(nb-1) : q[<<I, J>>]

\* the block operator with the blocks of pattern q
BlockOperatorOf(q, nb) ==
    BlockOperator([ij \in DOMAIN q |->
                      IF q[ij] THEN Some([kind |-> "matrix", name |-> ij])
                      ELSE None], nb, nb)

\* the list of bases of the given lengths, each tagged with the argument it
\* is passed as
BasesList(lens, side) ==
    [I \in DOMAIN lens |-> [space |-> I, side |-> side, len |-> lens[I]]]

\* the arguments of project_block_operator(operator, range_bases,
\* source_bases)
ProjectArgs(operator, range_lens, source_lens) ==
    [operator |-> operator, range_bases |-> BasesList(range_lens, "range"),
     source_bases |-> BasesList(source_lens, "source")]

\* a VectorOperator over an array of nb blocks
VectorOperator(nb) ==
    [kind |-> "vector", blocks |-> [I \in 0..(nb-1) |-> <<"rhs", I>>]]

\* the coefficient functionals of the affine combinations
Coefficients == {"theta_1", "theta_2"}

\* operators an affine combination is made of: an identity, a block-diagonal
\* and a full block operator, and two kinds _project_block_operator does not
\* know, a matrix operator and an affine combination
OperatorTerms(nb) ==
    {IdentityOperator("solution_space"),
     BlockOperatorOf([ij \in (0..(nb-1)) \X (0..(nb-1)) |-> ij[1] = ij[2]], nb),
     BlockOperatorOf([ij \in (0..(nb-1)) \X (0..(nb-1)) |-> TRUE], nb),
     [kind |-> "matrix", name |-> "leaf"],
     LincombOperator(<<IdentityOperator("solution_space")>>, <<"theta_1">>)}

\* right-hand sides an affine combination is made of: a vector operator, a
\* block column, and two kinds _project_block_rhs does not know, a vector
\* array operator and an affine combination
RhsTerms(nb) ==
    {VectorOperator(nb),
     BlockColumnOperator([I \in 0..(nb-1) |->
                             Some([kind |-> "matrix", name |-> <<I, 0>>])]),
     VectorArrayOperator(<<"rhs", 0>>),
     LincombOperator(<<VectorOperator(nb)>>, <<"theta_1">>)}

\* the affine combinations of up to MaxTerms of the given terms
Lincombs(terms) ==
    UNION {{LincombOperator(ops, cs) :
               ops \in [1..k -> terms], cs \in [1..k -> Coefficients]} :
           k \in 0..MaxTerms}

\* the arguments of project_block_rhs(rhs, range_bases)
ProjectRhsArgs(rhs, range_lens) ==
    [rhs |-> rhs, range_bases |-> BasesList(range_lens, "range")]

\* the calls made: one function, called once, with arguments drawn from the
\* grids, element lists, subdomain counts and operators within the bounds
InitFn ==
    /\ \/ \E N \in 1..MaxNodes :
             \E E \in SUBSET Pairs(N), rev \in BOOLEAN, rot \in 0..(N-1) :
                 call = Pending("construct_element_patches",
                                GridOf(N, E, rev, rot))
       \/ \E N \in 1..MaxNodes :
             \E l \in NoDupLists(N) :
                 call = Pending("construct_local_model",
                                [local_elements |-> l, num_subdomains |-> N])
       \/ \E N \in 1..MaxSubdomains :
             call = Pending("construct_inner_node_patches", [num_subdomains |-> N])
       \/ \E nb \in 1..MaxBlocks :
             \E rl \in [0..(nb-1) -> 0..MaxProjLen],
                sl \in [0..(nb-1) -> 0..MaxProjLen] :
                 \/ \E q \in {p \in [(0..(nb-1)) \X (0..(nb-1)) -> BOOLEAN] :
                                 ValidPattern(p, nb)} :
                       call = Pending("project_block_operator",
                                      ProjectArgs(BlockOperatorOf(q, nb), rl, sl))
                 \/ \E op \in {IdentityOperator("solution_space"),
                              [kind |-> "matrix", name |-> "leaf"]} :
                       call = Pending("project_block_operator",
                                      ProjectArgs(op, rl, sl))
       \/ \E n \in 2..MaxEstimatorSide :
             \E res \in [0..(n*n-1) -> ResidualNorms] :
                 call = Pending("estimate_error",
                                [grid |-> StructuredGrid(n), res |-> res])
       \/ \E N \in 1..MaxPatchNodes :
             \E E \in SUBSET Pairs(N), l \in NoDupLists(N) :
                 call = Pending("patch_model",
                                [local_elements |-> l,
                                 grid |-> GridOf(N, E, FALSE, 0)])
       \/ \E n \in 2..MaxFilterSide :
             \E I \in 0..(n*n-1) :
                 call = Pending("remove_irrelevant_coupling_from_patch_operator",
                                [side |-> n, I |-> I])
       \/ \E n \in 1..MaxSide :
             \E order \in DirectionOrders :
                 \/ call = Pending("construct_element_patches",
                                   OrderedStructuredGrid(n, order))
                 \/ /\ n >= 2
                    /\ call = Pending("add_element_neighbors",
                                      OrderedStructuredGrid(n, order))
       \/ \E N \in 1..MaxSubdomains :
             call = Pending("__init__",
                            GridOf(N, {p \in Pairs(N) : p[2] = p[1] + 1}, FALSE, 0))
       \/ \E nb \in 1..MaxBlocks :
             \E lens \in [0..(nb-1) -> 0..MaxProjLen] :
                 \/ \E op \in Lincombs(OperatorTerms(nb)) :
                       call = Pending("project_block_operator",
                                      ProjectArgs(op, lens, lens))
                 \/ \E rhs \in RhsTerms(nb) \cup Lincombs(RhsTerms(nb)) :
                       call = Pending("project_block_rhs",
                                      ProjectRhsArgs(rhs, lens))
    /\ dd_grid = StructuredGrid(0)
    /\ local_bases = <<>>
    /\ last_rom = None
    /\ last_rom_dims = None
    /\ reduced_local_bases = None
    /\ element_patches = <<>>
    /\ patch_models = <<>>
    /\ inner_node_patches = <<>>
    /\ estimator_domains = <<>>
    /\ last = [op |-> "none"]
    /\ enriched = {}

\* the call returns
Returns(fn, result) ==
    /\ call.fn = fn
    /\ call.out = None
    /\ call' = [call EXCEPT !.out = Some(result)]
    /\ UNCHANGED reductor_vars

ConstructElementPatches ==
    Returns("construct_element_patches", construct_element_patches(call.args))

ConstructLocalModel ==
    Returns("construct_local_model",
            construct_local_model(call.args.local_elements,
                                  call.args.num_subdomains))

ConstructInnerNodePatches ==
    Returns("construct_inner_node_patches",
            construct_inner_node_patches(call.args))

ProjectBlockOperator ==
    Returns("project_block_operator",
            project_block_operator(call.args.operator, call.args.range_bases,
                                   call.args.source_bases))

ProjectBlockRhs ==
    Returns("project_block_rhs",
            project_block_rhs(call.args.rhs, call.args.range_bases))

EstimateError ==
    Returns("estimate_error",
            estimate_error(assemble_error_estimator(call.args.grid), call.args.res))

ConstructPatchModel ==
    Returns("patch_model",
            PatchModelOf(call.args.grid, call.args.local_elements))

\* the call of lines 115-116 in enrich_locally(I, mu) on the n x n grid
RemoveIrrelevantCoupling ==
    LET grid == StructuredGrid(call.args.side)
        patch == SortedSeq(ElementPatchSet(grid, call.args.I))
    IN  Returns("remove_irrelevant_coupling_from_patch_operator",
                [patch |-> patch,
                 operator |->
                     remove_irrelevant_coupling_from_patch_operator(
                         PatchModelOf(grid, patch),
                         construct_local_model(patch, 0).local_to_global)])

AddElementNeighbors ==
    Returns("add_element_neighbors",
            add_element_neighbors(call.args,
                                  construct_inner_node_patches(call.args).items))

ReductorInit ==
    Returns("__init__", reductor_init(call.args))

NextFn ==
    \/ ConstructElementPatches
    \/ ConstructLocalModel
    \/ ConstructInnerNodePatches
    \/ ProjectBlockOperator
    \/ ProjectBlockRhs
    \/ EstimateError
    \/ ConstructPatchModel
    \/ RemoveIrrelevantCoupling
    \/ AddElementNeighbors
    \/ ReductorInit

SpecFn == InitFn /\ [][NextFn]_vars

(* ------------------------------- claims ------------------------------- *)

\* a reduce() call that returned
ReduceReturned == last.op = "reduce" /\ last.raised = None

\* C1: reduce() with dims None calls _reduce() exactly when no ROM is cached
\* or the bases' total length exceeds the total recorded at the last build;
\* otherwise it makes no build and returns the cached ROM, leaving the cache
\* as it was; after it returned, the recorded total is the current total, so
\* a second reduce() with no growth in between finds nothing to rebuild
C1_ReduceRebuildsIffGrown ==
    /\ [][ReduceReturned' =>
            /\ last'.builds \in {0, 1}
            /\ (last'.builds = 1) <=>
                   (last_rom = None \/ Sum(local_bases) > Val(last_rom_dims))
            /\ last'.ret = last_rom' /\ last_rom' # None
            /\ last'.builds = 0 =>
                   /\ last'.ret = last_rom
                   /\ UNCHANGED <<last_rom, last_rom_dims, reduced_local_bases>>
            /\ Val(last_rom_dims') = Sum(local_bases')]_vars
    /\ [][(ReduceReturned /\ ReduceReturned' /\ local_bases' = local_bases) =>
            (last'.builds = 0 /\ last'.ret = last.ret)]_vars

\* C1 witness: reduce() returned the cached ROM of a non-empty basis without
\* building
C1_Witness ==
    /\ ReduceReturned /\ last.builds = 0
    /\ last.ret = last_rom /\ Val(last_rom_dims) > 0

\* C2: when reduce() returns, the ROM it returns has, for every subdomain I
\* that an enrich_locally call extended since reduce() last returned, a
\* block-I dimension greater than that of the ROM cached before the call
C2_EnrichedBlockGrows ==
    [][ReduceReturned' =>
          \A I \in enriched :
              Val(last'.ret).dims[I] > Val(last_rom).dims[I]]_vars

\* C2 witness: reduce() rebuilt after a successful enrich_locally
C2_Witness ==
    ReduceReturned /\ last.had # {} /\ last.builds = 1

\* C3: no call shortens a local basis, a constructor given no bases starts
\* with empty ones, and enrich_locally(I, mu) adds at most one vector to
\* basis I
C3_BasesOnlyGrow ==
    /\ []((last.op = "init" /\ last.arg = None) =>
             \A I \in Subdomains : local_bases[I] = 0)
    /\ [][\A I \in Subdomains : local_bases'[I] >= local_bases[I]]_vars
    /\ [][last'.op = "enrich_locally" =>
             local_bases'[last'.I] <= local_bases[last'.I] + 1]_vars

\* C3 witness: enrich_locally extended a basis to length 2
C3_Witness ==
    /\ last.op = "enrich_locally" /\ last.I \in enriched
    /\ local_bases[last.I] = 2

\* the calls that extend bases
Extenders ==
    {"add_local_solutions", "add_global_solutions", "enrich_locally",
     "enrich_all_locally"}

\* C4: a failing extend_basis makes none of the extending calls raise, and
\* leaves the length of that basis as it was; enrich_all_locally enriches
\* every subdomain 0..S-1 in turn whichever extensions fail
C4_ExtensionFailureAbsorbed ==
    [][last'.op \in Extenders =>
          /\ last'.raised = None
          /\ \A k \in 1..Len(last'.ext) :
                last'.ext[k].failed =>
                    local_bases'[last'.ext[k].I] = local_bases[last'.ext[k].I]
          /\ last'.op = "enrich_all_locally" =>
                /\ Len(last'.ext) = S /\ Len(last'.solved) = S
                /\ \A k \in 1..S : last'.ext[k].I = k - 1]_vars

\* C4 witness: enrich_all_locally went on to extend the last basis after an
\* earlier extension had failed
C4_Witness ==
    /\ last.op = "enrich_all_locally" /\ S > 1 /\ Len(last.ext) = S
    /\ last.ext[1].failed /\ ~last.ext[S].failed

\* C5: reduce(dims) raises exactly when dims is not None, and then neither
\* builds nor changes the cached ROM, the recorded total, the snapshot or the
\* bases; reduce_to_subbasis always raises
C5_DimsRejected ==
    [][/\ last'.op = "reduce" =>
             /\ (last'.arg # None) <=> (last'.raised = Some("AssertionError"))
             /\ (last'.arg = None) <=> (last'.raised = None)
             /\ last'.arg # None =>
                   /\ last'.builds = 0 /\ last'.ret = None
                   /\ UNCHANGED <<local_bases, last_rom, last_rom_dims,
                                  reduced_local_bases>>
       /\ last'.op = "reduce_to_subbasis" =>
             last'.raised = Some("NotImplementedError")]_vars

\* C5 witness: reduce(dims) was refused while a rebuild was due
C5_Witness ==
    /\ last.op = "reduce" /\ last.arg # None /\ last.raised # None
    /\ last_rom # None /\ Sum(local_bases) > Val(last_rom_dims)

\* the bases of a 2 x 2 grid with k vectors each
Uniform4(k) == [I \in 0..3 |-> k]

\* an enrich_all_locally call all of whose extensions succeeded
AllEnriched ==
    /\ last.op = "enrich_all_locally" /\ last.raised = None
    /\ \A k \in 1..Len(last.ext) : ~last.ext[k].failed

\* C6: on the 2 x 2 grid, from empty bases and no cached ROM, an
\* enrich_all_locally whose extensions all succeed builds one ROM, the
\* zero-dimensional one, solves it in all four enrichments and leaves
\* basis_length() = [1,1,1,1]; the reduce() after it rebuilds and returns a
\* ROM of total dimension 4
C6_EndToEnd2x2 ==
    /\ [][(/\ S = 4 /\ last_rom = None /\ local_bases = Uniform4(0)
           /\ AllEnriched') =>
            /\ basis_length(Self') = Uniform4(1)
            /\ last'.builds = 1
            /\ Len(last'.solved) = 4
            /\ \A k \in 1..4 : last'.solved[k].dims = Uniform4(0)]_vars
    /\ [][(/\ S = 4 /\ AllEnriched /\ last.builds = 1
           /\ local_bases = Uniform4(1) /\ ReduceReturned') =>
            /\ last'.builds = 1
            /\ Sum(Val(last'.ret).dims) = 4
            /\ Sum(Val(last'.ret).dims) > Sum(last.solved[1].dims)]_vars

\* C6 witness: the state between the two calls
C6_Witness ==
    /\ S = 4 /\ AllEnriched /\ last.builds = 1
    /\ local_bases = Uniform4(1) /\ Val(last_rom).dims = Uniform4(0)

\* the call of fn has returned
Returned(fn) == call.fn = fn /\ call.out # None

\* the neighbours of I in grid g
Nb(g, I) == Range(g.neighbors[I])

\* C7: construct_element_patches returns one patch per subdomain; the patch
\* of I holds I, and each of its members is I, a neighbour of I or a
\* neighbour of a neighbour of I
C7_PatchWithinTwoHops ==
    Returned("construct_element_patches") =>
        LET g == call.args
            patches == Val(call.out)
        IN  /\ DOMAIN patches = 0..(g.num_subdomains - 1)
            /\ \A I \in DOMAIN patches :
                  /\ I \in Range(patches[I])
                  /\ \A M \in Range(patches[I]) :
                        \/ M = I
                        \/ M \in Nb(g, I)
                        \/ \E K \in Nb(g, I) : M \in Nb(g, K)

\* C7 witness: a grid with a patch that has a member two hops away, and a
\* patch that leaves out a subdomain two hops away
C7_Witness ==
    /\ Returned("construct_element_patches")
    /\ \E I \in DOMAIN Val(call.out) :
          \E M \in Range(Val(call.out)[I]) : M # I /\ M \notin Nb(call.args, I)
    /\ \E I \in DOMAIN Val(call.out) :
          \E K \in Nb(call.args, I) :
              \E M \in Nb(call.args, K) : M \notin Range(Val(call.out)[I])

\* the mappings of a patch model are inverse to each other on the patch, and
\* global_to_local is -1 off the patch
MappingsConsistent(local_elements, m, num_subdomains) ==
    /\ \A i \in 0..(Len(local_elements) - 1) :
          m.global_to_local[m.local_to_global[i]] = i
    /\ \A I \in 0..(num_subdomains - 1) :
          IF I \in Range(local_elements)
          THEN /\ m.global_to_local[I] \in 0..(Len(local_elements) - 1)
               /\ m.local_to_global[m.global_to_local[I]] = I
          ELSE m.global_to_local[I] = -1

\* C8: for a duplicate-free element list, and so for every element patch,
\* global_to_local(local_to_global(i)) = i for every local index i,
\* local_to_global(global_to_local(I)) = I for every I of the patch and
\* global_to_local(J) = -1 for every other subdomain J
C8_MappingsRoundTrip ==
    /\ Returned("construct_local_model") =>
          MappingsConsistent(call.args.local_elements, Val(call.out),
                             call.args.num_subdomains)
    /\ Returned("construct_element_patches") =>
          \A I \in DOMAIN Val(call.out) :
              LET patch == Val(call.out)[I]
              IN  /\ Cardinality(Range(patch)) = Len(patch)
                  /\ MappingsConsistent(
                        patch,
                        construct_local_model(patch, call.args.num_subdomains),
                        call.args.num_subdomains)

\* C8 witness: mappings of an unsorted patch that leaves a subdomain out
C8_Witness ==
    /\ Returned("construct_local_model")
    /\ Len(call.args.local_elements) = 3
    /\ call.args.local_elements[1] > call.args.local_elements[2]
    /\ Val(call.out).global_to_local[call.args.local_elements[3]] = 2
    /\ \E J \in 0..(call.args.num_subdomains - 1) :
          Val(call.out).global_to_local[J] = -1

\* C9: for S = n*n, n >= 2, construct_inner_node_patches returns (n-1)*(n-1)
\* patches under distinct keys; for each i, j in 0..n-2 the patch with key
\* i*n+j is [i*n+j, i*n+j+1, (i+1)*n+j, (i+1)*n+j+1], four distinct
\* subdomains; for S = 4 it is one patch holding subdomains 0..3
C9_InnerNodePatches ==
    Returned("construct_inner_node_patches") =>
        \A n \in 2..call.args.num_subdomains :
            n*n = call.args.num_subdomains =>
                LET r == Val(call.out)
                    keys == {r.items[k][1] : k \in 1..Len(r.items)}
                IN  /\ r.raised = None
                    /\ Len(r.items) = (n-1)*(n-1)
                    /\ Cardinality(keys) = Len(r.items)
                    /\ keys = {i*n + j : i \in 0..(n-2), j \in 0..(n-2)}
                    /\ \A k \in 1..Len(r.items) :
                          LET key == r.items[k][1]
                              els == r.items[k][2]
                          IN  /\ els = <<key, key + 1, key + n, key + n + 1>>
                              /\ Cardinality(Range(els)) = 4
                              /\ key % n < n - 1
                              /\ Range(els) \subseteq 0..(n*n - 1)
                    /\ n = 2 => (Len(r.items) = 1 /\ Range(r.items[1][2]) = 0..3)

\* C9 witness: the four node patches of the 3 x 3 grid
C9_Witness ==
    /\ Returned("construct_inner_node_patches")
    /\ call.args.num_subdomains = 9
    /\ Len(Val(call.out).items) = 4

\* C10: project_block_operator of a block operator returns a block operator
\* of the same shape whose block (I,J) is present exactly when the input's
\* is, and is that block projected onto range_bases[I] and source_bases[J],
\* of shape len(range_bases[I]) x len(source_bases[J]), whatever the
\* lengths; of an identity it returns, for every I, block (I,I) as the
\* identity of basis I's space projected onto range_bases[I] on both sides,
\* and no other block
C10_ProjectionKeepsSparsity ==
    Returned("project_block_operator") =>
        LET a == call.args
            r == Val(call.out)
            nb == PyLen(a.range_bases)
        IN  /\ a.operator.kind = "block" =>
                 /\ r.raised = None
                 /\ r.value.kind = "block"
                 /\ DOMAIN r.value.blocks = DOMAIN a.operator.blocks
                 /\ \A ij \in DOMAIN a.operator.blocks :
                       /\ (r.value.blocks[ij] # None) <=> (a.operator.blocks[ij] # None)
                       /\ r.value.blocks[ij] # None =>
                             LET b == Val(r.value.blocks[ij])
                             IN  /\ b.kind = "projected"
                                 /\ b.op = Val(a.operator.blocks[ij])
                                 /\ b.range = a.range_bases[ij[1]]
                                 /\ b.source = a.source_bases[ij[2]]
                                 /\ b.range.len = a.range_bases[ij[1]].len
                                 /\ b.source.len = a.source_bases[ij[2]].len
            /\ a.operator.kind = "identity" =>
                 /\ r.raised = None
                 /\ r.value.kind = "block"
                 /\ DOMAIN r.value.blocks = (0..(nb-1)) \X (0..(nb-1))
                 /\ \A ij \in DOMAIN r.value.blocks :
                       IF ij[1] = ij[2]
                       THEN /\ r.value.blocks[ij] # None
                            /\ LET b == Val(r.value.blocks[ij])
                               IN  /\ b.kind = "projected"
                                   /\ b.op.kind = "identity"
                                   /\ b.op.space = ij[1]
                                   /\ b.range = a.range_bases[ij[1]]
                                   /\ b.source = a.range_bases[ij[1]]
                       ELSE r.value.blocks[ij] = None

\* C10 witness: a block operator with an absent block was projected, block
\* (0,1) onto an empty range basis and a non-empty source basis
C10_Witness ==
    /\ Returned("project_block_operator")
    /\ call.args.operator.kind = "block"
    /\ Val(call.out).raised = None
    /\ \E ij \in DOMAIN call.args.operator.blocks :
          Val(call.out).value.blocks[ij] = None
    /\ Val(call.out).value.blocks[<<0, 1>>] # None
    /\ Val(Val(call.out).value.blocks[<<0, 1>>]).range.len = 0
    /\ Val(Val(call.out).value.blocks[<<0, 1>>]).source.len = 1

\* the kinds _project_block_operator projects
OperatorKinds == {"identity", "block"}

\* the kinds _project_block_rhs projects
RhsKinds == {"vector", "block_column"}

\* every term of the affine combination op is of one of the kinds
TermsOfKinds(op, kinds) ==
    \A i \in 1..Len(op.operators) : op.operators[i].kind \in kinds

\* C11: for an affine combination of k operators (right-hand sides) of the
\* kinds the projector knows, project_block_operator (project_block_rhs)
\* returns an affine combination of k terms with the same coefficients in the
\* same order, whose i-th term is what the function returns for the i-th
\* term alone
C11_LincombProjectedTermwise ==
    /\ (/\ Returned("project_block_operator")
        /\ call.args.operator.kind = "lincomb"
        /\ TermsOfKinds(call.args.operator, OperatorKinds)) =>
          LET a == call.args
              r == Val(call.out)
          IN  /\ r.raised = None
              /\ r.value.kind = "lincomb"
              /\ Len(r.value.operators) = Len(a.operator.operators)
              /\ r.value.coefficients = a.operator.coefficients
              /\ \A i \in 1..Len(a.operator.operators) :
                    LET t == project_block_operator(a.operator.operators[i],
                                                    a.range_bases, a.source_bases)
                    IN  /\ t.raised = None
                        /\ r.value.operators[i] = t.value
                        /\ t.value.kind = "block"
    /\ (/\ Returned("project_block_rhs")
        /\ call.args.rhs.kind = "lincomb"
        /\ TermsOfKinds(call.args.rhs, RhsKinds)) =>
          LET a == call.args
              r == Val(call.out)
          IN  /\ r.raised = None
              /\ r.value.kind = "lincomb"
              /\ Len(r.value.operators) = Len(a.rhs.operators)
              /\ r.value.coefficients = a.rhs.coefficients
              /\ \A i \in 1..Len(a.rhs.operators) :
                    LET t == project_block_rhs(a.rhs.operators[i], a.range_bases)
                    IN  /\ t.raised = None
                        /\ r.value.operators[i] = t.value
                        /\ t.value.kind = "block_column"

\* C11 witness: theta_1 * identity + theta_2 * block operator was projected
C11_Witness ==
    /\ Returned("project_block_operator")
    /\ call.args.operator.kind = "lincomb"
    /\ Len(call.args.operator.operators) = 2
    /\ call.args.operator.operators[1].kind = "identity"
    /\ call.args.operator.operators[2].kind = "block"
    /\ call.args.operator.coefficients = <<"theta_1", "theta_2">>
    /\ Val(call.out).raised = None
    /\ Val(call.out).value.operators[1] # Val(call.out).value.operators[2]

\* C12: project_block_operator raises, and returns nothing, when the
\* operator is neither an identity, a block operator nor an affine
\* combination, or is an affine combination with a term that is neither an
\* identity nor a block operator (an affine combination among them);
\* project_block_rhs does when the right-hand side, or a term of it, is
\* neither a vector operator nor a block column
C12_UnknownKindsRaise ==
    /\ Returned("project_block_operator") =>
          LET op == call.args.operator
              r == Val(call.out)
          IN  (\/ op.kind \notin OperatorKinds \cup {"lincomb"}
               \/ op.kind = "lincomb" /\ ~TermsOfKinds(op, OperatorKinds)) =>
                  (r.raised = Some("NotImplementedError") /\ r.value = None)
    /\ Returned("project_block_rhs") =>
          LET rhs == call.args.rhs
              r == Val(call.out)
          IN  (\/ rhs.kind \notin RhsKinds \cup {"lincomb"}
               \/ rhs.kind = "lincomb" /\ ~TermsOfKinds(rhs, RhsKinds)) =>
                  (r.raised = Some("NotImplementedError") /\ r.value = None)

\* C12 witness: an affine combination whose second term is an affine
\* combination was refused
C12_Witness ==
    /\ Returned("project_block_operator")
    /\ call.args.operator.kind = "lincomb"
    /\ Len(call.args.operator.operators) = 2
    /\ call.args.operator.operators[1].kind = "block"
    /\ call.args.operator.operators[2].kind = "lincomb"
    /\ Val(call.out).raised # None

\* the estimator domains, as (key, elements) items, of the grid
EstimatorDomains(grid) ==
    add_element_neighbors(grid, construct_inner_node_patches(grid).items)

\* C13: estimate_error returns (overall, indicators, per_subdomain) with one
\* indicator per estimator domain and per_subdomain an array of S entries,
\* that of subdomain sd being the sum of the squared indicators of the
\* estimator domains that contain sd
C13_PerSubdomainAggregate ==
    Returned("estimate_error") =>
        LET r == Val(call.out)
            eds == EstimatorDomains(call.args.grid)
            num == call.args.grid.num_subdomains
        IN  /\ Len(r.indicators) = Len(eds)
            /\ r.ests.shape = <<num>>
            /\ \A sd \in 0..(num-1) :
                  r.ests.value[sd] =
                      SumSeq([k \in 1..Len(eds) |->
                                 IF sd \in Range(eds[k][2])
                                 THEN r.indicators[k] ELSE 0], Len(eds))

\* C14: whenever a ROM is cached the snapshot reduced_local_bases is set and
\* its basis I has as many vectors as block I of the cached ROM has rows, and
\* no more than the live basis I; the snapshot changes only in a call that
\* runs a rebuilding reduce(); and no enrichment fails for a basis and
\* coefficient block of different lengths
C14_SnapshotMatchesRom ==
    /\ [](last_rom # None =>
             /\ reduced_local_bases # None
             /\ DOMAIN Val(reduced_local_bases) = Subdomains
             /\ \A I \in Subdomains :
                   /\ Val(reduced_local_bases)[I] = Val(last_rom).dims[I]
                   /\ Val(reduced_local_bases)[I] <= local_bases[I])
    /\ [][reduced_local_bases' # reduced_local_bases =>
             /\ last'.op \in {"reduce", "enrich_locally", "enrich_all_locally"}
             /\ last'.builds = 1
             /\ reduced_local_bases' = Some(Val(last_rom').dims)]_vars
    /\ [][last'.op \in {"enrich_locally", "enrich_all_locally"} =>
             last'.raised = None]_vars

\* C14 witness: enrich_locally solved the cached ROM while a live basis was
\* longer than its snapshot
C14_Witness ==
    /\ last.op = "enrich_locally" /\ last.builds = 0 /\ last.raised = None
    /\ \E I \in Subdomains :
          /\ Val(reduced_local_bases)[I] < local_bases[I] - 1
          /\ Val(last_rom).dims[I] = Val(reduced_local_bases)[I]

\* C16: for a duplicate-free element list on any adjacency, the patch
\* operator has, for local indices ii # jj with I = elements[ii] and
\* J = elements[jj], block (ii,jj) exactly when J is a neighbour of I, and it
\* is the FOM's block (I,J); block (ii,ii) is the FOM's block (I,I) with all
\* its terms and rhs row ii is the FOM's row I; so every block of the patch
\* operator is a FOM block of two subdomains of the patch, and a coupling to
\* a neighbour outside the patch is in none
C16_PatchOperatorBlocks ==
    Returned("patch_model") =>
        LET els == call.args.local_elements
            g == call.args.grid
            fom == FomOperator(g)
            m == Val(call.out)
            n == Len(els)
        IN  /\ m.operator.rows = n /\ m.operator.cols = n
            /\ \A ii, jj \in 0..(n-1) :
                  LET I == els[ii + 1]
                      J == els[jj + 1]
                      b == m.operator.blocks[<<ii, jj>>]
                  IN  /\ ii # jj => ((b # None) <=> (J \in Nb(g, I)))
                      /\ ii = jj => b # None
                      /\ b # None => b = fom.blocks[<<I, J>>]
            /\ \A ii \in 0..(n-1) :
                  m.rhs.blocks[ii] = FomRhs(g).blocks[els[ii + 1]]

\* C16 witness: a patch of two subdomains with the coupling between them,
\* the first of which has a neighbour outside the patch
C16_Witness ==
    /\ Returned("patch_model")
    /\ Len(call.args.local_elements) = 2
    /\ Val(call.out).operator.blocks[<<0, 1>>] # None
    /\ \E K \in Nb(call.args.grid, call.args.local_elements[1]) :
          K \notin Range(call.args.local_elements)

\* C15: enrich_locally(I, mu) runs _reduce() exactly when no ROM is cached,
\* and then on the bases as they were; with a ROM cached it leaves the ROM,
\* the recorded total and the snapshot as they were and solves that ROM; it
\* changes no basis but that of I, nor the element patches, patch models and
\* mappings; so enrich_all_locally(mu) builds at most once and solves the
\* same ROM S times
C15_EnrichFrame ==
    /\ [][last'.op = "enrich_locally" =>
             /\ last'.builds = (IF last_rom = None THEN 1 ELSE 0)
             /\ last_rom # None =>
                   UNCHANGED <<last_rom, last_rom_dims, reduced_local_bases>>
             /\ last_rom = None =>
                   /\ Val(last_rom').dims = local_bases
                   /\ Val(last_rom_dims') = Sum(local_bases)
             /\ last'.solved = <<Val(last_rom')>>
             /\ \A J \in Subdomains \ {last'.I} : local_bases'[J] = local_bases[J]
             /\ UNCHANGED <<element_patches, patch_models>>]_vars
    /\ [][last'.op = "enrich_all_locally" =>
             /\ last'.builds = (IF last_rom = None THEN 1 ELSE 0)
             /\ last_rom # None =>
                   UNCHANGED <<last_rom, last_rom_dims, reduced_local_bases>>
             /\ Len(last'.solved) = S
             /\ \A k \in 1..S : last'.solved[k] = Val(last_rom')
             /\ UNCHANGED <<element_patches, patch_models>>]_vars

\* C15 witness: on the 2 x 2 grid enrich_locally extended a basis using the
\* cached ROM although the bases had grown since it was built
C15_Witness ==
    /\ S = 4 /\ last.op = "enrich_locally" /\ last.builds = 0
    /\ last.I \in Extended(last)
    /\ Sum(local_bases) > Val(last_rom_dims) + 1
    /\ patch_models[last.I].mappings.global_to_local[last.I] >= 0

\* C17: for every patch of a structured grid and every diagonal block (i,i)
\* of its patch operator, with I = local_to_global(i):
\* remove_irrelevant_coupling_from_patch_operator keeps the volume and the
\* boundary term and, of the coupling terms, exactly those of the pairs
\* {I,K} with K in the patch, with their coefficients and in their order;
\* the off-diagonal blocks are passed on as they are
C17_CouplingFilteredByPatch ==
    Returned("remove_irrelevant_coupling_from_patch_operator") =>
        LET grid == StructuredGrid(call.args.side)
            patch == Val(call.out).patch
            old == PatchModelOf(grid, patch).operator
            new == Val(call.out).operator
            n == Len(patch)
        IN  \A i, j \in 0..(n-1) :
               IF i # j THEN new.blocks[<<i, j>>] = old.blocks[<<i, j>>]
               ELSE LET b == Val(old.blocks[<<i, i>>])
                        wanted ==
                            SelectSeq([k \in 1..Len(b.operators) |-> k],
                                      LAMBDA k :
                                          \/ b.operators[k].couples = None
                                          \/ Val(b.operators[k].couples) \in Range(patch))
                    IN  new.blocks[<<i, i>>] =
                            Some(LincombOperator(
                                [m \in 1..Len(wanted) |-> b.operators[wanted[m]]],
                                [m \in 1..Len(wanted) |-> b.coefficients[wanted[m]]]))

PerfectSquare(num) == \E n \in 0..num : n*n = num

\* C19 as stated: for S not a perfect square construct_inner_node_patches,
\* and the constructor, complete without an error
C19_SilentOnNonSquare ==
    /\ (Returned("construct_inner_node_patches")
        /\ ~PerfectSquare(call.args.num_subdomains)) =>
          Val(call.out).raised = None
    /\ (Returned("__init__") /\ ~PerfectSquare(call.args.num_subdomains)) =>
          Val(call.out).raised = None

\* C19, amended: construct_inner_node_patches raises ValueError and returns
\* no node patches exactly when S is not a perfect square, and then the
\* constructor raises it too and no reductor is built
C19_RaisesOnNonSquare ==
    /\ Returned("construct_inner_node_patches") =>
          IF PerfectSquare(call.args.num_subdomains)
          THEN Val(call.out).raised = None
          ELSE /\ Val(call.out).raised = Some("ValueError")
               /\ Val(call.out).items = <<>>
    /\ Returned("__init__") =>
          IF PerfectSquare(call.args.num_subdomains)
          THEN Val(call.out).raised = None /\ Val(call.out).obj # None
          ELSE /\ Val(call.out).raised = Some("ValueError")
               /\ Val(call.out).obj = None

\* C19 witness: the constructor was run on a grid of 6 subdomains
C19_Witness ==
    /\ Returned("__init__")
    /\ call.args.num_subdomains = 6
    /\ Val(call.out).raised # None

\* C20: on the structured n x n grid, whatever the order of neighbors(), the
\* element patch of the subdomain at (r, c) is the set of the subdomains at
\* (r2, c2) with |r2 - r| <= 1 and |c2 - c| <= 1
C20_PatchIsNeighbourhood ==
    (Returned("construct_element_patches") /\ "side" \in DOMAIN call.args) =>
        LET n == call.args.side
            patches == Val(call.out)
        IN  /\ DOMAIN patches = 0..(n*n - 1)
            /\ \A I \in DOMAIN patches :
                  /\ Range(patches[I]) =
                        {J \in 0..(n*n - 1) :
                            /\ (J \div n) - (I \div n) \in -1..1
                            /\ (J % n) - (I % n) \in -1..1}
                  /\ Len(patches[I]) = Cardinality(Range(patches[I]))

\* C20 witness: the patch of the centre of the 3 x 3 grid is the whole grid
\* and the patch of a corner its 2 x 2 block, when neighbors() lists the
\* right-hand neighbour first
C20_Witness ==
    /\ Returned("construct_element_patches") /\ "side" \in DOMAIN call.args
    /\ call.args.side = 3
    /\ call.args.neighbors[4][1] = 5
    /\ Range(Val(call.out)[4]) = 0..8
    /\ Range(Val(call.out)[0]) = {0, 1, 3, 4}

====
